---------------------------- MODULE Spec2Model ----------------------------
(***************************************************************************)
(* IPD measurement: the capture session of CameraView (detect,            *)
(* resetCapture), the pure calculations it calls (calculateAccuracy,      *)
(* calculateMetrics, getMedian, getStandardDeviation, averageMetrics) and *)
(* the FaceDetectionService that hands it the landmarks.                  *)
(*                                                                         *)
(* Numbers are fixed-point integers:                                       *)
(*   ipd, leftPd, rightPd   tenths of a millimetre   (63.0 mm = 630)      *)
(*   distance               tenths of a centimetre   (30 cm   = 300)      *)
(*   roll                   tenths of a degree       (2.5 deg = 25)       *)
(*   yaw, pitch             thousandths              (0.06    = 60)       *)
(*   faceY                  hundredths               (0.5     = 50)       *)
(*   lighting, accuracy, stability   points 0..100                        *)
(* Results of averageMetrics are exact rationals [n, d] in the same units;  *)
(* its stability is 100 less a square root, kept as what is under the     *)
(* root.                                                                   *)
(***************************************************************************)
EXTENDS Integers, Sequences, FiniteSets, TLC

(***************************************************************************)
(* Program constants.                                                      *)
(***************************************************************************)
\* calculations.ts:5-7, whole centimetres
IDEAL_DISTANCE_CM == 30
MIN_DISTANCE_CM == 20
MAX_DISTANCE_CM == 45
\* CameraView.tsx:44-49
REQUIRED_SAMPLES == 100
\* 2.5 degrees, in tenths of a degree
ROLL_THRESHOLD == 25
\* 0.06, in thousandths
YAW_THRESHOLD == 60
\* -0.12 and 0.12, in thousandths
PITCH_MIN == -120
PITCH_MAX == 120
\* 0.15, in hundredths
CENTER_TOLERANCE == 15
\* CameraView.tsx:397-398: let currentLighting = 50, analysed anew when more
\* than 500 ms have passed.
DEFAULT_LIGHTING == 50
LIGHTING_INTERVAL_MS == 500

(***************************************************************************)
(* Bounds of the exploration.                                              *)
(***************************************************************************)
\* Ticks vary while the buffer holds fewer than MaxVaried samples, at most
\* MaxVaried fewer than REQUIRED_SAMPLES, or REQUIRED_SAMPLES; otherwise
\* every tick delivers SteadyFrame, a frame after the tick before it.
MaxVaried == 1
\* Longest sample list handed to averageMetrics on its own.
MaxAggLen == 3
\* Most ticks explored between a change of the rendered state and the
\* effects of React's next render.  The code has no such limit: CameraView.tsx:512 requests the
\* same detect again, tick after tick, until the effect of a render requests
\* a frame for the new one.
MaxStaleTicks == 2
\* Largest magnitude of an argument handed to calculateAccuracy on its own,
\* in the units of the argument.
Extreme == 1000000
\* Largest timestamp handed to the detect of the service on its own, in
\* milliseconds.
MaxTime == 2
\* The milliseconds between two animation frames of a session, and the most
\* frames of a session that add no sample to the buffer they found.
FrameMs == 16
MaxIdleTicks == 1
\* Most closes of the result modal that React has not rendered yet.
MaxCloses == 1
\* Most initializations of the service in flight at once.
MaxInits == 2
\* Largest pixel coordinate of a landmark handed to the monocular split on
\* its own.
MaxPixel == 3

\* Centimetres to tenths of a centimetre.
Cm(x) == x * 10

Abs(x) == IF x < 0 THEN -x ELSE x
Max(a, b) == IF a > b THEN a ELSE b
Min(a, b) == IF a < b THEN a ELSE b

(***************************************************************************)
(* Exact rational arithmetic for the divisions of averageMetrics.         *)
(***************************************************************************)
RECURSIVE GCD(_, _)
GCD(a, b) == IF b = 0 THEN a ELSE GCD(b, a % b)

\* n/d in lowest terms with a positive denominator.
Rat(n, d) ==
    LET g == GCD(Abs(n), Abs(d))
        s == IF d < 0 THEN -1 ELSE 1
    IN  [n |-> (s * n) \div g, d |-> (s * d) \div g]

RatInt(x) == [n |-> x, d |-> 1]

RatAdd(p, q) ==
    LET g == GCD(p.d, q.d)
    IN  Rat(p.n * (q.d \div g) + q.n * (p.d \div g), (p.d \div g) * q.d)

RatNeg(p) == [n |-> -p.n, d |-> p.d]
RatSub(p, q) == RatAdd(p, RatNeg(q))
RatAbs(p) == [n |-> Abs(p.n), d |-> p.d]

\* Cross-reduced before multiplying, so that products stay small.
RatMul(p, q) ==
    LET g1 == GCD(Abs(p.n), q.d)
        g2 == GCD(Abs(q.n), p.d)
        h1 == IF g1 = 0 THEN 1 ELSE g1
        h2 == IF g2 = 0 THEN 1 ELSE g2
    IN  Rat((p.n \div h1) * (q.n \div h2), (p.d \div h2) * (q.d \div h1))

\* q # 0
RatDiv(p, q) == RatMul(p, Rat(q.d, q.n))

RatLt(p, q) == p.n * q.d < q.n * p.d
RatGt(p, q) == RatLt(q, p)

\* Sum of the entries lo..hi of a sequence of rationals, by halves.
RECURSIVE RatSumRange(_, _, _)
RatSumRange(s, lo, hi) ==
    IF lo > hi THEN RatInt(0)
    ELSE IF lo = hi THEN s[lo]
    ELSE LET m == (lo + hi) \div 2
         IN  RatAdd(RatSumRange(s, lo, m), RatSumRange(s, m + 1, hi))
RatSum(s) == RatSumRange(s, 1, Len(s))

\* Sum of the entries lo..hi of a sequence of integers, by halves.
RECURSIVE SumRange(_, _, _)
SumRange(s, lo, hi) ==
    IF lo > hi THEN 0
    ELSE IF lo = hi THEN s[lo]
    ELSE LET m == (lo + hi) \div 2
         IN  SumRange(s, lo, m) + SumRange(s, m + 1, hi)
Sum(s) == SumRange(s, 1, Len(s))

(***************************************************************************)
(* calculateAccuracy (calculations.ts:175-198).  The penalties are summed  *)
(* in twentieths of a point, the common denominator of the coefficients    *)
(* 5, 4, 0.5, 1, 3, 100/1000, 150/1000 and 1.5 in the units above; the     *)
(* result is clamped to 0..100 and rounded as Math.round does (half up).   *)
(***************************************************************************)
\* The near coefficient 4 in place of 5.
DistancePenaltyNearAsFar20(distance) ==
    IF distance < Cm(MIN_DISTANCE_CM) THEN (Cm(MIN_DISTANCE_CM) - distance) * 8
    ELSE IF distance > Cm(MAX_DISTANCE_CM) THEN (distance - Cm(MAX_DISTANCE_CM)) * 8
    ELSE Abs(distance - Cm(IDEAL_DISTANCE_CM))

DistancePenalty20(distance) ==
    IF distance < Cm(MIN_DISTANCE_CM) THEN (Cm(MIN_DISTANCE_CM) - distance) * 10
    ELSE IF distance > Cm(MAX_DISTANCE_CM) THEN (distance - Cm(MAX_DISTANCE_CM)) * 8
    ELSE Abs(distance - Cm(IDEAL_DISTANCE_CM))

\* Without the clamp of calculations.ts:197.
calculateAccuracyUnclamped(distance, lighting, roll, yaw, pitch, stability) ==
    LET a0 == 2000 - DistancePenalty20(distance)
        a1 == IF lighting < 60 THEN a0 - (60 - lighting) * 20 ELSE a0
        a2 == a1 - Abs(roll) * 6
        a3 == a2 - Abs(yaw) * 2
        a4 == a3 - Abs(pitch) * 3
        a5 == a4 - Max(0, (100 - stability) * 30)
    IN  (a5 + 10) \div 20

calculateAccuracy(distance, lighting, roll, yaw, pitch, stability) ==
    LET a0 == 2000 - DistancePenalty20(distance)
        a1 == IF lighting < 60 THEN a0 - (60 - lighting) * 20 ELSE a0
        a2 == a1 - Abs(roll) * 6
        a3 == a2 - Abs(yaw) * 2
        a4 == a3 - Abs(pitch) * 3
        a5 == a4 - Max(0, (100 - stability) * 30)
        clamped == Max(0, Min(2000, a5))
    IN  (clamped + 10) \div 20

(***************************************************************************)
(* A frame is what the geometry of calculateMetrics (calculations.ts:      *)
(* 201-243) and isEyeOpen yield for one detected face, with what decides   *)
(* the lighting score in detect (CameraView.tsx:397-401): analysis is the  *)
(* score analyzeLighting gives for the video when detect calls it.         *)
(***************************************************************************)
\* The aligned frames all have the pose error 0.2 (|yaw| + |pitch| + |roll|/100),
\* which keeps the rationals of a 100-sample average within TLC's integers,
\* and lie on different thresholds of the alignment checks.  Their monocular
\* distances sum to the ipd, as the projection of calculateMetrics gives for
\* a nose between the irises.
SteadyFrame ==
    [ipd |-> 630, leftPd |-> 310, rightPd |-> 320, distance |-> 300,
     analysis |-> 100, roll |-> -20, yaw |-> -YAW_THRESHOLD,
     pitch |-> PITCH_MIN,
     faceY |-> 50, leftOpen |-> TRUE, rightOpen |-> TRUE]

\* Aligned, 10 mm away from the steady ipd.
JitterFrame ==
    [ipd |-> 730, leftPd |-> 360, rightPd |-> 370, distance |-> Cm(MAX_DISTANCE_CM),
     analysis |-> 100, roll |-> -ROLL_THRESHOLD,
     yaw |-> 55, pitch |-> PITCH_MAX,
     faceY |-> 50 - CENTER_TOLERANCE + 1, leftOpen |-> TRUE, rightOpen |-> TRUE]

\* Aligned, 0.4 mm away from the steady ipd.
EdgeFrame ==
    [ipd |-> 634, leftPd |-> 300, rightPd |-> 334, distance |-> Cm(MIN_DISTANCE_CM),
     analysis |-> 70, roll |-> ROLL_THRESHOLD,
     yaw |-> YAW_THRESHOLD,
     pitch |-> 115, faceY |-> 50 + CENTER_TOLERANCE - 1,
     leftOpen |-> TRUE, rightOpen |-> TRUE]

AlignedFrames == {SteadyFrame, JitterFrame, EdgeFrame}

\* A face too near: a frame that resets a sampling session.
NearFrame == [SteadyFrame EXCEPT !.distance = Cm(MIN_DISTANCE_CM) - 1]

\* Frames with one axis, or two, out of its range.
MisalignedFrames ==
    { NearFrame,
      [SteadyFrame EXCEPT !.distance = Cm(MAX_DISTANCE_CM) + 1],
      [SteadyFrame EXCEPT !.faceY = 50 + CENTER_TOLERANCE],
      [SteadyFrame EXCEPT !.faceY = 50 - CENTER_TOLERANCE],
      [SteadyFrame EXCEPT !.leftOpen = FALSE],
      [SteadyFrame EXCEPT !.rightOpen = FALSE],
      [SteadyFrame EXCEPT !.pitch = PITCH_MIN - 1],
      [SteadyFrame EXCEPT !.pitch = PITCH_MAX + 1],
      [SteadyFrame EXCEPT !.yaw = YAW_THRESHOLD + 1],
      [SteadyFrame EXCEPT !.yaw = -YAW_THRESHOLD - 1],
      [SteadyFrame EXCEPT !.roll = ROLL_THRESHOLD + 1],
      [SteadyFrame EXCEPT !.roll = -ROLL_THRESHOLD - 1],
      [SteadyFrame EXCEPT !.leftOpen = FALSE, !.distance = 500],
      [SteadyFrame EXCEPT !.yaw = 100, !.faceY = 70] }

\* The buffer sizes at which ticks vary: the first MaxVaried and the last
\* MaxVaried samples of a capture, and the full buffer.
Varied(n) ==
    n < MaxVaried \/ (n >= REQUIRED_SAMPLES - MaxVaried /\ n <= REQUIRED_SAMPLES)

\* The frames a tick can deliver when the buffer holds n samples: any
\* misaligned frame while the buffer varies and is not full, any aligned
\* frame for the last MaxVaried samples of a capture, NearFrame when the
\* buffer is full, and SteadyFrame always.
FramesAt(n) ==
    {SteadyFrame} \cup
    (IF Varied(n) /\ n < REQUIRED_SAMPLES THEN MisalignedFrames ELSE {}) \cup
    (IF Varied(n) /\ n < REQUIRED_SAMPLES /\ n >= MaxVaried
        THEN AlignedFrames ELSE {}) \cup
    (IF n = REQUIRED_SAMPLES THEN {NearFrame} ELSE {})

(***************************************************************************)
(* calculateMetrics (calculations.ts:242-261): the Metrics of a frame and   *)
(* the lighting score handed in.                                           *)
(***************************************************************************)
\* The lighting score that detect hands to calculateMetrics
\* (CameraView.tsx:397-401), elapsed being startTime - lastTimeRef.current.
currentLighting(analysis, elapsed) ==
    IF elapsed > LIGHTING_INTERVAL_MS THEN analysis ELSE DEFAULT_LIGHTING

calculateMetrics(frame, lighting) ==
    [ipd |-> frame.ipd, leftPd |-> frame.leftPd, rightPd |-> frame.rightPd,
     distance |-> frame.distance, lighting |-> lighting,
     accuracy |-> calculateAccuracy(frame.distance, lighting, frame.roll,
                                    frame.yaw, frame.pitch, 100),
     roll |-> frame.roll, yaw |-> frame.yaw, pitch |-> frame.pitch,
     faceY |-> frame.faceY, stability |-> 100]

(***************************************************************************)
(* getMedian (calculations.ts:32-37).                                      *)
(***************************************************************************)
\* sorted[i] of the ascending sort of values, i counted from 0.
SortedAt(values, i) ==
    CHOOSE v \in {values[k] : k \in 1..Len(values)} :
        /\ Cardinality({k \in 1..Len(values) : values[k] < v}) <= i
        /\ Cardinality({k \in 1..Len(values) : values[k] <= v}) > i

getMedian(values) ==
    IF Len(values) = 0 THEN RatInt(0)
    ELSE LET mid == Len(values) \div 2
         IN  IF Len(values) % 2 # 0
                THEN RatInt(SortedAt(values, mid))
                ELSE Rat(SortedAt(values, mid - 1) + SortedAt(values, mid), 2)

(***************************************************************************)
(* getStandardDeviation (calculations.ts:40-46).  avgSquareDiff is exact;  *)
(* it is computed on the differences to values[1], which leaves it the     *)
(* same number.  The square root of a rational x >= 0 is a real number; it *)
(* is written [squared |-> x], so two roots are equal exactly when the     *)
(* records are.                                                            *)
(***************************************************************************)
Sqrt(x) == [squared |-> x]

avgSquareDiff(values) ==
    IF Len(values) = 0 THEN RatInt(0)
    ELSE LET n == Len(values)
             u == [k \in 1..n |-> values[k] - values[1]]
             s1 == Sum(u)
             s2 == Sum([k \in 1..n |-> u[k] * u[k]])
         IN  Rat(n * s2 - s1 * s1, n * n)

getStandardDeviation(values) == Sqrt(avgSquareDiff(values))

\* Math.max(0, 100 - (stdDev * 30)) (calculations.ts:303) for a stdDev in
\* tenths of a millimetre, which is 100 - 3 stdDev: the real number
\* whole - less, less being a root.
StabilityScore(stdDev) ==
    LET less == RatMul(RatInt(9), stdDev.squared)
    IN  IF RatLt(less, RatInt(100 * 100))
           THEN [whole |-> 100, less |-> Sqrt(less)]
           ELSE [whole |-> 0, less |-> Sqrt(RatInt(0))]

Field(s, f) == [k \in 1..Len(s) |-> s[k][f]]

(***************************************************************************)
(* averageMetrics (calculations.ts:265-321).                               *)
(***************************************************************************)
\* |s.ipd - medianIpd| < 1.0 mm
WithinTolerance(s, medianIpd) ==
    RatLt(RatAbs(RatSub(RatInt(s.ipd), medianIpd)), RatInt(10))

\* A plausible slip: >= for >.
RetainedSetAtFortyPercent(samples, validSamples) ==
    IF Len(validSamples) * 10 >= Len(samples) * 4 THEN validSamples ELSE samples

\* validSamples.length > samples.length * 0.4 ? validSamples : samples
RetainedSet(samples, validSamples) ==
    IF Len(validSamples) * 10 > Len(samples) * 4 THEN validSamples ELSE samples

\* A plausible slip: every sample weighs the same.
UnitWeight(s) == RatInt(1)

\* 1 / (1 + poseError * 10), poseError = |yaw| + |pitch| + |roll| / 100
Weight(s) == Rat(100, 100 + Abs(s.yaw) + Abs(s.pitch) + Abs(s.roll))

\* A plausible slip: the averaged monocular distances returned as they are.
ScaleOmitted(finalIpd, totalRaw) == RatInt(1)

\* totalRaw > 0 ? finalIpd / totalRaw : 1
Scale(finalIpd, totalRaw) ==
    IF RatGt(totalRaw, RatInt(0)) THEN RatDiv(finalIpd, totalRaw) ELSE RatInt(1)

\* A plausible slip: an empty list answered with zero Metrics.
NoSamplesAsZeroMetrics ==
    [ipd |-> RatInt(0), leftPd |-> RatInt(0), rightPd |-> RatInt(0),
     distance |-> RatInt(0), lighting |-> RatInt(0), accuracy |-> RatInt(0),
     roll |-> RatInt(0), yaw |-> RatInt(0), pitch |-> RatInt(0),
     faceY |-> RatInt(0),
     stability |-> [whole |-> 0, less |-> Sqrt(RatInt(0))]]

\* calculations.ts:266: throw new Error("No samples"); no Metrics is returned.
NoSamplesError == [error |-> "No samples"]

\* calculations.ts:269-273
ValidSamples(samples) ==
    LET medianIpd == getMedian(Field(samples, "ipd"))
    IN  SelectSeq(samples, LAMBDA s : WithinTolerance(s, medianIpd))

\* calculations.ts:276-320: the Metrics computed from the retained set.
AverageOfSet(set, medianIpd) ==
    LET n == Len(set)
        w == [k \in 1..n |-> Weight(set[k])]
        totalWeight == RatSum(w)
        weightedIpd == RatSum([k \in 1..n |-> RatMul(RatInt(set[k].ipd), w[k])])
        weightedDist == RatSum([k \in 1..n |-> RatMul(RatInt(set[k].distance), w[k])])
        finalIpd == IF RatGt(totalWeight, RatInt(0))
                       THEN RatDiv(weightedIpd, totalWeight) ELSE medianIpd
        finalDistance == IF RatGt(totalWeight, RatInt(0))
                            THEN RatDiv(weightedDist, totalWeight)
                            ELSE getMedian(Field(set, "distance"))
        avgLeftRaw == Rat(Sum(Field(set, "leftPd")), n)
        avgRightRaw == Rat(Sum(Field(set, "rightPd")), n)
        totalRaw == RatAdd(avgLeftRaw, avgRightRaw)
        scale == Scale(finalIpd, totalRaw)
        stdDev == getStandardDeviation(Field(set, "ipd"))
        stabilityScore == StabilityScore(stdDev)
        meanAccuracy == Rat(Sum(Field(set, "accuracy")), n)
    IN  [ipd |-> finalIpd,
         leftPd |-> RatMul(avgLeftRaw, scale),
         rightPd |-> RatMul(avgRightRaw, scale),
         distance |-> finalDistance,
         lighting |-> getMedian(Field(set, "lighting")),
         accuracy |-> meanAccuracy,
         roll |-> getMedian(Field(set, "roll")),
         yaw |-> getMedian(Field(set, "yaw")),
         pitch |-> getMedian(Field(set, "pitch")),
         faceY |-> getMedian(Field(set, "faceY")),
         stability |-> stabilityScore]

averageMetrics(samples) ==
    IF Len(samples) = 0 THEN NoSamplesError
    ELSE AverageOfSet(RetainedSet(samples, ValidSamples(samples)),
                      getMedian(Field(samples, "ipd")))

(***************************************************************************)
(* Metrics given to averageMetrics on its own, each one that               *)
(* calculateMetrics returns for some landmarks (calculations.ts:229-240:   *)
(* leftPd = |t| ipd and rightPd = |1 - t| ipd, so leftPd + rightPd >= ipd, *)
(* and all three are 0 for coinciding iris centres): those of the aligned  *)
(* frames, one exactly 1.0 mm above the steady ipd with the nose bridge    *)
(* projecting beyond the right iris (t = 1.03125), one of a frontal face   *)
(* (pose error 0), and one of coinciding iris centres.                     *)
(***************************************************************************)
AggInputs ==
    { calculateMetrics(SteadyFrame, DEFAULT_LIGHTING), calculateMetrics(JitterFrame, JitterFrame.analysis),
      calculateMetrics(EdgeFrame, DEFAULT_LIGHTING),
      calculateMetrics([SteadyFrame EXCEPT !.ipd = 640, !.leftPd = 660,
                           !.rightPd = 20],
                       DEFAULT_LIGHTING),
      calculateMetrics([SteadyFrame EXCEPT !.ipd = 626, !.leftPd = 313,
                           !.rightPd = 313, !.roll = 0, !.yaw = 0, !.pitch = 0],
                       DEFAULT_LIGHTING),
      calculateMetrics([SteadyFrame EXCEPT !.ipd = 0, !.leftPd = 0, !.rightPd = 0],
                       DEFAULT_LIGHTING) }

\* Outliers that follow such Metrics in a list: none, two 10 mm above the
\* steady ipd, or these and one 10 mm below it.
OutlierTails ==
    { <<>>,
      <<calculateMetrics(JitterFrame, JitterFrame.analysis), calculateMetrics(JitterFrame, JitterFrame.analysis)>>,
      <<calculateMetrics([SteadyFrame EXCEPT !.ipd = 530, !.leftPd = 260,
                                             !.rightPd = 270],
                       DEFAULT_LIGHTING),
        calculateMetrics(JitterFrame, JitterFrame.analysis), calculateMetrics(JitterFrame, JitterFrame.analysis)>> }

(***************************************************************************)
(* State.  CameraView: captureStatus, samplingProgress, guidanceState and  *)
(* faceDetected are React state, samples is samplesRef.current and         *)
(* lastTimeRef is lastTimeRef.current.  App: isModalOpen, capturedMetrics  *)
(* (none: <<>>) and cameraKey are React state.  rendered holds the state   *)
(* of the last render: what is on screen, and what the handlers of its     *)
(* buttons read (handleSave is a useCallback over capturedMetrics).        *)
(* detect is a useCallback over captureStatus and faceDetected             *)
(* (CameraView.tsx:513), and CameraView.tsx:512 requests the next frame    *)
(* for the detect that is running: requestRef holds the captureStatus and  *)
(* faceDetected that the detect of the requested frame closes over, and    *)
(* the key of its CameraView.  A render makes detect anew; the requested   *)
(* frame stays that of the old detect until the effect of                  *)
(* CameraView.tsx:515-522, which runs after the render, cancels it and     *)
(* requests one for the new detect.  loopRunning says that a frame is      *)
(* requested.  staleTicks counts the ticks run since the screen or the     *)
(* requested frame fell behind the state.                                  *)
(* frameKind is the kind of frame the latest step processed ("none" for a  *)
(* step that is not a tick) and onCaptureCalls lists the onCapture calls   *)
(* the latest step made, with their arguments.                             *)
(* aggSamples and aggResult are the argument and the result (none yet:     *)
(* <<>>) of a call of averageMetrics on its own, accArgs and accResult     *)
(* those of a call of calculateAccuracy on its own.  FaceDetectionService: *)
(* faceLandmarker, initPromise and lastVideoTime are the fields of the     *)
(* singleton, initsInFlight lists the initializations that have not        *)
(* settled, each with the useGpu it was called with, the delegate of its   *)
(* running attempt and the delegates of its failed attempts, initSettled   *)
(* holds the initialization that the latest step settled, with its         *)
(* outcome (none: <<>>), and detectCall records the call of detect that    *)
(* the latest step made (none: <<>>): its arguments, the detector's        *)
(* outcome for the frame, the fields the call found, and what the call     *)
(* returned; detectorTimes lists the timestamps handed to detectForVideo,  *)
(* in order.  geoArgs and geoResult are the                                *)
(* landmarks and the result (none yet: <<>>) of the monocular split of     *)
(* calculateMetrics on its own.                                            *)
(***************************************************************************)
VARIABLES captureStatus, samples, samplingProgress, guidanceState,
          faceDetected, lastTimeRef, onCaptureCalls,
          isModalOpen, capturedMetrics, cameraKey,
          rendered, requestRef, loopRunning, staleTicks, frameKind,
          aggSamples, aggResult, accArgs, accResult, geoArgs, geoResult,
          faceLandmarker, initPromise, initsInFlight, lastVideoTime, detectCall,
          detectorTimes, initSettled

cameraVars == <<captureStatus, samples, samplingProgress, guidanceState,
                faceDetected, lastTimeRef>>
appVars == <<isModalOpen, capturedMetrics, cameraKey>>
sessionVars == <<cameraVars, appVars, onCaptureCalls,
                 rendered, requestRef, loopRunning, staleTicks, frameKind>>
aggVars == <<aggSamples, aggResult>>
accVars == <<accArgs, accResult>>
geoVars == <<geoArgs, geoResult>>
pureVars == <<aggVars, accVars, geoVars>>
serviceVars == <<faceLandmarker, initPromise, initsInFlight, lastVideoTime,
                 detectCall, detectorTimes, initSettled>>
vars == <<sessionVars, pureVars, serviceVars>>

\* The state of a newly mounted CameraView (CameraView.tsx:72-97).
Mounted ==
    [captureStatus |-> "idle", samples |-> <<>>, samplingProgress |-> 0,
     guidanceState |-> [pitch |-> "ok", yaw |-> "ok", roll |-> "ok",
                        distance |-> "ok", center |-> "ok", eyes |-> "ok",
                        hold |-> FALSE],
     faceDetected |-> FALSE, lastTimeRef |-> 0]

\* What a render of now shows and closes over: the dependencies of detect
\* that change (CameraView.tsx:513), the props of the result modal and the
\* key of CameraView (App).
Rendering ==
    [captureStatus |-> captureStatus, faceDetected |-> faceDetected,
     isModalOpen |-> isModalOpen, capturedMetrics |-> capturedMetrics,
     cameraKey |-> cameraKey]

\* App rendered with nothing captured and the result modal closed (App:
\* useState(null), useState(false), useState(0)), CameraView mounted, the
\* first frame requested.
InitSession ==
    /\ captureStatus = Mounted.captureStatus
    /\ samples = Mounted.samples
    /\ samplingProgress = Mounted.samplingProgress
    /\ guidanceState = Mounted.guidanceState
    /\ faceDetected = Mounted.faceDetected
    /\ lastTimeRef = Mounted.lastTimeRef
    /\ onCaptureCalls = <<>>
    /\ isModalOpen = FALSE
    /\ capturedMetrics = <<>>
    /\ cameraKey = 0
    /\ rendered = [captureStatus |-> Mounted.captureStatus,
                   faceDetected |-> Mounted.faceDetected,
                   isModalOpen |-> FALSE, capturedMetrics |-> <<>>,
                   cameraKey |-> 0]
    /\ requestRef = [captureStatus |-> Mounted.captureStatus,
                     faceDetected |-> Mounted.faceDetected, cameraKey |-> 0]
    /\ loopRunning = TRUE
    /\ staleTicks = 0
    /\ frameKind = "none"

\* No call of averageMetrics on its own.
NoAggregate == aggSamples = <<>> /\ aggResult = <<>>

\* The arguments of calculateAccuracy that carry no penalty
\* (calculations.ts:175-195): the ideal distance, lighting 60, a level
\* head, stability 100.
NeutralArgs ==
    [distance |-> Cm(IDEAL_DISTANCE_CM), lighting |-> 60, roll |-> 0, yaw |-> 0,
     pitch |-> 0, stability |-> 100]

\* No call of calculateAccuracy on its own.
NoScore == accArgs = NeutralArgs /\ accResult = <<>>

\* Pixel positions of the left iris centre, the right iris centre and the
\* nose bridge (calculations.ts:201-210).
Pixels == [x : 0..MaxPixel, y : 0..MaxPixel - 1]
Landmarks == [leftIris : Pixels, rightIris : Pixels, nose : Pixels]

\* No monocular split on its own.
NoSplit ==
    /\ geoArgs = [leftIris |-> [x |-> 0, y |-> 0], rightIris |-> [x |-> 0, y |-> 0],
                  nose |-> [x |-> 0, y |-> 0]]
    /\ geoResult = <<>>

\* The singleton as constructed (faceDetection.ts:4-9), detect not called.
InitService ==
    /\ faceLandmarker = "null"
    /\ initPromise = "null"
    /\ initsInFlight = <<>>
    /\ initSettled = <<>>
    /\ lastVideoTime = -1
    /\ detectCall = <<>>
    /\ detectorTimes = <<>>

\* The singleton once the initialize(true) of App has resolved (App:
\* startSystem), which makes isModelReady true: the landmarker is held and
\* the promise kept, detect not called.
InitServiceReady ==
    /\ faceLandmarker = "landmarker"
    /\ initPromise = "pending"
    /\ initsInFlight = <<>>
    /\ initSettled = <<>>
    /\ lastVideoTime = -1
    /\ detectCall = <<>>
    /\ detectorTimes = <<>>

Init ==
    /\ InitSession
    /\ NoAggregate
    /\ NoScore
    /\ NoSplit
    /\ InitService

\* App has loaded the model and shows CameraView with isModelReady.
InitReady ==
    /\ InitSession
    /\ NoAggregate
    /\ NoScore
    /\ NoSplit
    /\ InitServiceReady

(***************************************************************************)
(* The independent checks of detect (CameraView.tsx:419-456).              *)
(***************************************************************************)
isCentered(metrics) == Abs(metrics.faceY - 50) < CENTER_TOLERANCE

newGuidance(metrics, leftOpen, rightOpen) ==
    [distance |-> IF metrics.distance < Cm(MIN_DISTANCE_CM) THEN "near"
                  ELSE IF metrics.distance > Cm(MAX_DISTANCE_CM) THEN "far"
                  ELSE "ok",
     center |-> IF ~isCentered(metrics) THEN "adjust" ELSE "ok",
     eyes |-> IF ~leftOpen \/ ~rightOpen THEN "open" ELSE "ok",
     pitch |-> IF metrics.pitch < PITCH_MIN THEN "up"
               ELSE IF metrics.pitch > PITCH_MAX THEN "down"
               ELSE "ok",
     yaw |-> IF metrics.yaw > YAW_THRESHOLD THEN "left"
             ELSE IF metrics.yaw < -YAW_THRESHOLD THEN "right"
             ELSE "ok",
     roll |-> IF metrics.roll > ROLL_THRESHOLD THEN "cw"
              ELSE IF metrics.roll < -ROLL_THRESHOLD THEN "ccw"
              ELSE "ok",
     hold |-> FALSE]

isPerfect(g) ==
    /\ g.distance = "ok" /\ g.center = "ok" /\ g.eyes = "ok"
    /\ g.pitch = "ok" /\ g.yaw = "ok" /\ g.roll = "ok"

\* CameraView.tsx:459: the branch that sets hold and takes a sample.
Capturing(perfect, status) == perfect /\ status # "complete"

\* CameraView.tsx:476
SamplesComplete(count) == count >= REQUIRED_SAMPLES

\* A plausible slip: closed eyes reset the session too.
AlignmentOrEyesLost(g) == g.distance # "ok" \/ g.center # "ok" \/ g.eyes # "ok"

\* CameraView.tsx:485: what resets a sampling session.
AlignmentLost(g) == g.distance # "ok" \/ g.center # "ok"

\* CameraView.tsx:484-485
ResetsOnLoss(status, g) == status = "sampling" /\ AlignmentLost(g)

\* CameraView.tsx:474
Progress(count) == (count * 100) \div REQUIRED_SAMPLES

(***************************************************************************)
(* FaceDetectionService (faceDetection.ts).  A video is what detect reads  *)
(* of the element; the detector's outcome for a frame is a result with a   *)
(* face, a result without one, or an exception.                            *)
(***************************************************************************)
Videos ==
    {[videoWidth |-> 640, videoHeight |-> 480, readyState |-> 4],
     [videoWidth |-> 640, videoHeight |-> 480, readyState |-> 1],
     [videoWidth |-> 0, videoHeight |-> 0, readyState |-> 0]}

DetectorOutcomes == {"face", "noFace", "throws"}

\* Without element i.
Without(seq, i) == [k \in 1..Len(seq) - 1 |-> IF k < i THEN seq[k] ELSE seq[k + 1]]

\* initialize (faceDetection.ts:18-28) when it starts a creation; with a
\* landmarker held or an initialization pending it returns at once.  The
\* creation starts with the delegate asked for and no failed attempt.
initialize(useGpu) ==
    /\ faceLandmarker = "null"
    /\ initPromise = "null"
    /\ Len(initsInFlight) < MaxInits
    /\ initPromise' = "pending"
    /\ initsInFlight' =
          Append(initsInFlight,
                 [useGpu |-> useGpu, delegate |-> IF useGpu THEN "GPU" ELSE "CPU",
                  failed |-> <<>>, closed |-> FALSE])
    /\ detectCall' = <<>>
    /\ initSettled' = <<>>
    /\ UNCHANGED <<faceLandmarker, lastVideoTime, detectorTimes, sessionVars, pureVars>>

\* _initializeInternal creates the landmarker (faceDetection.ts:36-45) and
\* the promise of the initialization resolves.
LandmarkerCreated(i) ==
    /\ faceLandmarker' = "landmarker"
    /\ initsInFlight' = Without(initsInFlight, i)
    /\ initSettled' = <<[init |-> initsInFlight[i], outcome |-> "resolved"]>>
    /\ detectCall' = <<>>
    /\ UNCHANGED <<initPromise, lastVideoTime, detectorTimes, sessionVars, pureVars>>

\* No attempt is retried.
RetriesNever(delegate) == FALSE

\* The catch of _initializeInternal retries after a failure with the GPU
\* delegate (faceDetection.ts:49-51).
Retries(delegate) == delegate = "GPU"

\* An attempt of _initializeInternal fails (faceDetection.ts:46-55): it is
\* retried with the CPU delegate, or the promise rejects and the handler of
\* initialize clears initPromise (faceDetection.ts:22-25).
AttemptFailed(i) ==
    LET init == [initsInFlight[i] EXCEPT !.failed = Append(@, initsInFlight[i].delegate)]
    IN  /\ IF Retries(initsInFlight[i].delegate)
              THEN /\ initsInFlight' =
                         [initsInFlight EXCEPT ![i] = [init EXCEPT !.delegate = "CPU"]]
                   /\ initSettled' = <<>>
                   /\ UNCHANGED initPromise
              ELSE /\ initsInFlight' = Without(initsInFlight, i)
                   /\ initPromise' = "null"
                   /\ initSettled' = <<[init |-> init, outcome |-> "rejected"]>>
        /\ detectCall' = <<>>
        /\ UNCHANGED <<faceLandmarker, lastVideoTime, detectorTimes, sessionVars, pureVars>>

VideoReady(video) ==
    ~(video.videoWidth = 0 \/ video.videoHeight = 0 \/ video.readyState < 2)

\* detectForVideo called with no try around it.
DetectForVideoUncaught(outcome) == IF outcome = "throws" THEN "raised" ELSE outcome

\* What the try of faceDetection.ts:72-77 yields for the detector's outcome.
DetectForVideo(outcome) == IF outcome = "throws" THEN "null" ELSE outcome

\* detect reaches the detector (faceDetection.ts:59-69).
ReachesDetector(video, startTimeMs) ==
    /\ faceLandmarker # "null"
    /\ VideoReady(video)
    /\ ~(startTimeMs <= lastVideoTime)

\* What detect returns (faceDetection.ts:58-78).
DetectReturns(video, startTimeMs, outcome) ==
    IF ReachesDetector(video, startTimeMs) THEN DetectForVideo(outcome) ELSE "null"

\* What a call of detect does to the service (faceDetection.ts:58-78).
CallDetect(video, startTimeMs, outcome) ==
    LET call == [video |-> video, startTimeMs |-> startTimeMs, outcome |-> outcome,
                 faceLandmarker |-> faceLandmarker, lastVideoTime |-> lastVideoTime]
    IN  /\ detectCall' = <<call, DetectReturns(video, startTimeMs, outcome)>>
        /\ IF ReachesDetector(video, startTimeMs)
              THEN /\ lastVideoTime' = startTimeMs
                   /\ detectorTimes' = Append(detectorTimes, startTimeMs)
              ELSE UNCHANGED <<lastVideoTime, detectorTimes>>
        /\ initSettled' = <<>>
        /\ UNCHANGED <<faceLandmarker, initPromise, initsInFlight>>

\* detect called on its own.
ServiceDetect(video, startTimeMs, outcome) ==
    /\ CallDetect(video, startTimeMs, outcome)
    /\ UNCHANGED <<sessionVars, pureVars>>

\* A close that also forgets the last timestamp.
closeAndForgetTime ==
    /\ faceLandmarker' = "null"
    /\ initPromise' = "null"
    /\ lastVideoTime' = -1
    /\ initsInFlight' = [k \in 1..Len(initsInFlight) |->
                            [initsInFlight[k] EXCEPT !.closed = TRUE]]
    /\ detectCall' = <<>>
    /\ initSettled' = <<>>
    /\ UNCHANGED <<detectorTimes, sessionVars, pureVars>>

\* close (faceDetection.ts:80-86).  It does nothing to a creation in
\* flight; closed notes on each that close has been called since it began.
close ==
    /\ faceLandmarker' = "null"
    /\ initPromise' = "null"
    /\ initsInFlight' = [k \in 1..Len(initsInFlight) |->
                            [initsInFlight[k] EXCEPT !.closed = TRUE]]
    /\ detectCall' = <<>>
    /\ initSettled' = <<>>
    /\ UNCHANGED <<lastVideoTime, detectorTimes, sessionVars, pureVars>>

(***************************************************************************)
(* Scheduling of a tick.  A requested frame runs the detect it was         *)
(* requested for.  Nothing in the code orders React's next render, or the  *)
(* effects of a render, before the next animation frame, and nothing       *)
(* limits the ticks that run in between; MaxStaleTicks of them are         *)
(* explored before the screen and the requested frame have caught up.      *)
(***************************************************************************)
Stale == rendered # Rendering

\* The detect of the last render.
RenderedDetect ==
    [captureStatus |-> rendered.captureStatus, faceDetected |-> rendered.faceDetected,
     cameraKey |-> rendered.cameraKey]

\* The effect of CameraView.tsx:515-522 has not run since detect was made
\* anew or CameraView was mounted.
EffectPending == requestRef # RenderedDetect

\* The screen or the requested frame is behind the state.
Behind == Stale \/ EffectPending

\* A step that leaves the service alone.
NoServiceCall ==
    /\ detectCall' = <<>>
    /\ initSettled' = <<>>
    /\ UNCHANGED <<faceLandmarker, initPromise, initsInFlight, lastVideoTime,
                   detectorTimes>>

CanTick == loopRunning /\ (~Behind \/ staleTicks < MaxStaleTicks)

Ticked(kind) ==
    /\ frameKind' = kind
    /\ staleTicks' = IF Behind THEN staleTicks + 1 ELSE 0
    /\ UNCHANGED <<rendered, requestRef, cameraKey>>

\* The video of the running camera, which passes CameraView.tsx:379.
CameraVideo == [videoWidth |-> 640, videoHeight |-> 480, readyState |-> 4]

\* A sampling session has lost its buffer and the detect of the requested
\* frame is still the one made for the sampling session.
LossNotRendered ==
    /\ captureStatus = "idle"
    /\ requestRef.captureStatus = "sampling"
    /\ samples = <<>>

\* The values of performance.now() (CameraView.tsx:385) that a tick may
\* read: that of the tick before it again, or one a frame later, right
\* after a loss and while fewer than MaxIdleTicks frames have gone to the
\* detector and left no sample in the buffer.
TickTimes ==
    {t \in (IF Varied(Len(samples)) THEN {lastVideoTime} ELSE {}) \cup
           (IF LossNotRendered \/ Len(detectorTimes) < Len(samples) + MaxIdleTicks
               THEN {lastVideoTime + FrameMs} ELSE {}) : t >= 0}

\* CameraView.tsx:398-401: the lighting is analysed and the time noted.
Analysed(startTime) == startTime - lastTimeRef > LIGHTING_INTERVAL_MS

(***************************************************************************)
(* detect with a detected face (CameraView.tsx:384-495, 512): the service  *)
(* returned landmarks and the canvas has a context.  captureStatus and     *)
(* faceDetected are read from the closure, samplesRef and lastTimeRef from *)
(* the refs.                                                               *)
(***************************************************************************)
DetectFace(frame, startTime) ==
    LET lighting == currentLighting(frame.analysis, startTime - lastTimeRef)
        metrics == calculateMetrics(frame, lighting)
        g == newGuidance(metrics, frame.leftOpen, frame.rightOpen)
        status == requestRef.captureStatus
    IN  /\ CanTick
        /\ DetectReturns(CameraVideo, startTime, "face") = "face"
        /\ CallDetect(CameraVideo, startTime, "face")
        /\ Ticked("face")
        /\ loopRunning' = TRUE
        /\ faceDetected' = IF ~requestRef.faceDetected THEN TRUE ELSE faceDetected
        /\ lastTimeRef' = IF Analysed(startTime) THEN startTime ELSE lastTimeRef
        /\ IF Capturing(isPerfect(g), status)
              THEN /\ samples' = Append(samples, metrics)
                   /\ samplingProgress' = Progress(Len(samples'))
                   /\ guidanceState' = [g EXCEPT !.hold = TRUE]
                   /\ IF SamplesComplete(Len(samples'))
                         THEN /\ captureStatus' = "complete"
                              /\ onCaptureCalls' =
                                    <<[finalMetrics |-> averageMetrics(samples'),
                                       samples |-> samples']>>
                              /\ capturedMetrics' = <<averageMetrics(samples')>>
                              /\ isModalOpen' = TRUE
                         ELSE /\ captureStatus' =
                                    IF status = "idle" THEN "sampling"
                                    ELSE captureStatus
                              /\ onCaptureCalls' = <<>>
                              /\ UNCHANGED <<isModalOpen, capturedMetrics>>
              ELSE /\ guidanceState' = g
                   /\ onCaptureCalls' = <<>>
                   /\ UNCHANGED <<isModalOpen, capturedMetrics>>
                   /\ IF ResetsOnLoss(status, g)
                         THEN /\ samples' = <<>>
                              /\ samplingProgress' = 0
                              /\ captureStatus' = "idle"
                         ELSE UNCHANGED <<samples, samplingProgress, captureStatus>>
        /\ UNCHANGED pureVars

(***************************************************************************)
(* detect without a face (CameraView.tsx:384-389, 497-509, 512): the       *)
(* service returned null or no landmarks, and the canvas has a context.    *)
(* The kind of the frame is "stale" when the service refused the timestamp *)
(* (faceDetection.ts:67-69), "noFace" otherwise.                           *)
(***************************************************************************)
NoFaceBranch ==
    /\ faceDetected' = IF requestRef.faceDetected THEN FALSE ELSE faceDetected
    /\ samplingProgress' = 0
    /\ samples' = <<>>
    /\ captureStatus' = "idle"

NoFaceKind(startTime) ==
    IF faceLandmarker # "null" /\ startTime <= lastVideoTime THEN "stale" ELSE "noFace"

\* A plausible slip: a finished capture survives the loss of the face.
DetectNoFaceKeepsComplete(startTime, outcome) ==
    /\ CanTick
    /\ DetectReturns(CameraVideo, startTime, outcome) # "face"
    /\ CallDetect(CameraVideo, startTime, outcome)
    /\ Ticked(NoFaceKind(startTime))
    /\ loopRunning' = TRUE
    /\ onCaptureCalls' = <<>>
    /\ IF requestRef.captureStatus = "complete"
          THEN UNCHANGED <<faceDetected, samplingProgress, samples, captureStatus>>
          ELSE NoFaceBranch
    /\ UNCHANGED <<guidanceState, lastTimeRef, isModalOpen, capturedMetrics, pureVars>>

DetectNoFace(startTime, outcome) ==
    /\ CanTick
    /\ DetectReturns(CameraVideo, startTime, outcome) # "face"
    /\ CallDetect(CameraVideo, startTime, outcome)
    /\ Ticked(NoFaceKind(startTime))
    /\ loopRunning' = TRUE
    /\ onCaptureCalls' = <<>>
    /\ NoFaceBranch
    /\ UNCHANGED <<guidanceState, lastTimeRef, isModalOpen, capturedMetrics, pureVars>>

(***************************************************************************)
(* detect with landmarks that lack an index calculateMetrics reads         *)
(* (calculations.ts:201-205): leftIris is undefined and leftIris.x throws  *)
(* a TypeError out of detect, after CameraView.tsx:391-401 and before the  *)
(* next frame is requested at CameraView.tsx:512.                          *)
(***************************************************************************)
DetectIncomplete(startTime) ==
    /\ CanTick
    /\ DetectReturns(CameraVideo, startTime, "face") = "face"
    /\ CallDetect(CameraVideo, startTime, "face")
    /\ Ticked("incomplete")
    /\ loopRunning' = FALSE
    /\ faceDetected' = IF ~requestRef.faceDetected THEN TRUE ELSE faceDetected
    /\ lastTimeRef' = IF Analysed(startTime) THEN startTime ELSE lastTimeRef
    /\ onCaptureCalls' = <<>>
    /\ UNCHANGED <<captureStatus, samples, samplingProgress, guidanceState,
                   isModalOpen, capturedMetrics, pureVars>>

(***************************************************************************)
(* detect when the canvas gives no 2d context (CameraView.tsx:384-389,     *)
(* 512): the service has been called, nothing of the session is set and    *)
(* the next frame is requested.                                            *)
(***************************************************************************)
DetectNoContext(startTime, outcome) ==
    /\ CanTick
    /\ CallDetect(CameraVideo, startTime, outcome)
    /\ Ticked("noContext")
    /\ loopRunning' = TRUE
    /\ onCaptureCalls' = <<>>
    /\ UNCHANGED <<cameraVars, isModalOpen, capturedMetrics, pureVars>>

\* One tick of detect (CameraView.tsx:376-513).  The detector is taken to
\* find a face when the canvas gives no context.
detect ==
    \E startTime \in TickTimes :
        \/ \E frame \in FramesAt(Len(samples)) : DetectFace(frame, startTime)
        \/ /\ Varied(Len(samples))
           /\ \/ \E outcome \in DetectorOutcomes \ {"face"} :
                    DetectNoFace(startTime, outcome)
              \/ DetectIncomplete(startTime)
              \/ DetectNoContext(startTime, "face")

(***************************************************************************)
(* React renders App and CameraView with the state the steps set, after    *)
(* the effects of the render before it.  With captureStatus or             *)
(* faceDetected changed, detect is made anew; the frame requested stays    *)
(* that of the old detect.  With the key changed (App: key={cameraKey}),   *)
(* the CameraView is unmounted and a new one mounted: the old detect finds *)
(* videoRef.current null and returns (CameraView.tsx:377) without          *)
(* requesting a frame.                                                     *)
(***************************************************************************)
Remounts == rendered.cameraKey # cameraKey

Render ==
    /\ Stale
    /\ ~EffectPending
    /\ IF Remounts
          THEN /\ captureStatus' = Mounted.captureStatus
               /\ samples' = Mounted.samples
               /\ samplingProgress' = Mounted.samplingProgress
               /\ guidanceState' = Mounted.guidanceState
               /\ faceDetected' = Mounted.faceDetected
               /\ lastTimeRef' = Mounted.lastTimeRef
          ELSE UNCHANGED cameraVars
    /\ rendered' = [captureStatus |-> captureStatus', faceDetected |-> faceDetected',
                    isModalOpen |-> isModalOpen, capturedMetrics |-> capturedMetrics,
                    cameraKey |-> cameraKey]
    /\ loopRunning' = IF Remounts THEN FALSE ELSE loopRunning
    /\ staleTicks' = IF requestRef # [captureStatus |-> captureStatus',
                                       faceDetected |-> faceDetected',
                                       cameraKey |-> cameraKey]
                         THEN staleTicks ELSE 0
    /\ frameKind' = "none"
    /\ onCaptureCalls' = <<>>
    /\ UNCHANGED <<requestRef, appVars, pureVars>>
    /\ NoServiceCall

(***************************************************************************)
(* The effect of CameraView.tsx:515-522, run after a render that made      *)
(* detect anew or mounted CameraView: its cleanup cancels the requested    *)
(* frame and a frame is requested for the detect of the render.            *)
(***************************************************************************)
DetectEffect ==
    /\ EffectPending
    /\ requestRef' = RenderedDetect
    /\ loopRunning' = TRUE
    /\ frameKind' = "none"
    /\ onCaptureCalls' = <<>>
    /\ staleTicks' = IF Stale THEN staleTicks ELSE 0
    /\ UNCHANGED <<cameraVars, appVars, rendered, pureVars>>
    /\ NoServiceCall

(***************************************************************************)
(* resetCapture (CameraView.tsx:524-530), the RETAKE SCAN button, which is *)
(* rendered while captureStatus is complete (CameraView.tsx:777-781).      *)
(***************************************************************************)
\* A reset that also returns the guidance to its initial value.
resetCaptureAndGuidance ==
    /\ rendered.captureStatus = "complete"
    /\ samples' = <<>>
    /\ samplingProgress' = 0
    /\ captureStatus' = "idle"
    /\ guidanceState' = Mounted.guidanceState
    /\ onCaptureCalls' = <<>>
    /\ frameKind' = "none"
    /\ UNCHANGED <<faceDetected, lastTimeRef, appVars, rendered, requestRef,
                   loopRunning, staleTicks, pureVars>>
    /\ NoServiceCall

resetCapture ==
    /\ rendered.captureStatus = "complete"
    /\ samples' = <<>>
    /\ samplingProgress' = 0
    /\ captureStatus' = "idle"
    /\ onCaptureCalls' = <<>>
    /\ frameKind' = "none"
    /\ UNCHANGED <<guidanceState, faceDetected, lastTimeRef, appVars, rendered,
                   requestRef, loopRunning, staleTicks, pureVars>>
    /\ NoServiceCall

(***************************************************************************)
(* App.  handleSave (App: handleSave) does nothing without the             *)
(* capturedMetrics of the last render; otherwise it writes the history to  *)
(* localStorage and then closes the modal, leaving CameraView as it is;    *)
(* when setItem throws (stored is FALSE), the modal stays open.  The       *)
(* history itself is outside the model.  handleCloseModal (App:            *)
(* handleCloseModal) closes the modal and changes the key of CameraView;   *)
(* at most MaxCloses of them run between two renders.                      *)
(***************************************************************************)
handleSave(stored) ==
    /\ rendered.capturedMetrics # <<>>
    /\ IF stored THEN isModalOpen' = FALSE ELSE UNCHANGED isModalOpen
    /\ onCaptureCalls' = <<>>
    /\ frameKind' = "none"
    /\ UNCHANGED <<cameraVars, capturedMetrics, cameraKey, rendered, requestRef,
                   loopRunning, staleTicks, pureVars>>
    /\ NoServiceCall

handleCloseModal ==
    /\ cameraKey - rendered.cameraKey < MaxCloses
    /\ isModalOpen' = FALSE
    /\ cameraKey' = cameraKey + 1
    /\ onCaptureCalls' = <<>>
    /\ frameKind' = "none"
    /\ UNCHANGED <<cameraVars, capturedMetrics, rendered, requestRef, loopRunning,
                   staleTicks, pureVars>>
    /\ NoServiceCall

(***************************************************************************)
(* The result modal shows its buttons when the last render had isOpen and  *)
(* metrics (ResultModal: if (!isOpen || !metrics) return null): Save       *)
(* Measurement runs handleSave, the backdrop and Discard handleCloseModal. *)
(***************************************************************************)
ModalOnScreen == rendered.isModalOpen /\ rendered.capturedMetrics # <<>>

onSave == ModalOnScreen /\ \E stored \in BOOLEAN : handleSave(stored)

onClose == ModalOnScreen /\ handleCloseModal

Next ==
    \/ detect
    \/ Render
    \/ DetectEffect
    \/ resetCapture
    \/ onSave
    \/ onClose

Spec == InitReady /\ [][Next]_vars

(***************************************************************************)
(* averageMetrics on its own: any list of up to MaxAggLen Metrics,         *)
(* followed by outliers.                                                   *)
(***************************************************************************)
InitAgg ==
    /\ InitSession
    /\ aggSamples \in
          { head \o tail : head \in UNION {[1..k -> AggInputs] : k \in 0..MaxAggLen},
                           tail \in OutlierTails }
    /\ aggResult = <<>>
    /\ NoScore
    /\ NoSplit
    /\ InitService

Aggregate ==
    /\ aggResult = <<>>
    /\ aggResult' = <<averageMetrics(aggSamples)>>
    /\ UNCHANGED <<aggSamples, sessionVars, accVars, geoVars, serviceVars>>

NextAgg == Aggregate

SpecAgg == InitAgg /\ [][NextAgg]_vars

(***************************************************************************)
(* calculateAccuracy on its own: every combination of the values below,    *)
(* which lie on and around each threshold of the function and reach        *)
(* Extreme in both directions.  Units as above: distance in tenths of a    *)
(* centimetre, roll in tenths of a degree, yaw and pitch in thousandths.   *)
(***************************************************************************)
AccDistances ==
    {-Extreme, -10, 0, Cm(10), 195, 199, Cm(MIN_DISTANCE_CM), Cm(IDEAL_DISTANCE_CM),
     Cm(MAX_DISTANCE_CM), 451, Cm(70), Cm(71), Extreme}
AccLightings == {-Extreme, 0, 59, 60, 80, Extreme}
AccRolls == {-Extreme, -5, 0, 30, Extreme}
AccYaws == {-Extreme, 0, 25, Extreme}
AccPitches == {-40, 0, Extreme}
AccStabilities == {-Extreme, 0, 90, 100, Extreme}

InitAcc ==
    /\ InitSession
    /\ NoAggregate
    /\ accArgs \in [distance : AccDistances, lighting : AccLightings,
                     roll : AccRolls, yaw : AccYaws, pitch : AccPitches,
                     stability : AccStabilities]
    /\ accResult = <<>>
    /\ NoSplit
    /\ InitService

Score ==
    /\ accResult = <<>>
    /\ accResult' = <<calculateAccuracy(accArgs.distance, accArgs.lighting,
                                        accArgs.roll, accArgs.yaw, accArgs.pitch,
                                        accArgs.stability)>>
    /\ UNCHANGED <<accArgs, sessionVars, aggVars, geoVars, serviceVars>>

NextAcc == Score

SpecAcc == InitAcc /\ [][NextAcc]_vars

(***************************************************************************)
(* The monocular split of calculateMetrics (calculations.ts:228-240) on    *)
(* its own, for every placing of the three landmarks on the pixel grid.    *)
(* The lengths are kept as their exact squares, in square pixels: leftSq   *)
(* and rightSq are the radicands of leftPd and rightPd before the scaling  *)
(* by mmPerPixel, totalSq is the radicand of pixelDistance                 *)
(* (calculations.ts:213-215).                                              *)
(***************************************************************************)
\* t (calculations.ts:235).
Projection(dot, len_sq) == IF len_sq # 0 THEN Rat(dot, len_sq) ELSE Rat(1, 2)

MonocularSplit(landmarks) ==
    LET lx == landmarks.leftIris.x
        ly == landmarks.leftIris.y
        rx == landmarks.rightIris.x
        ry == landmarks.rightIris.y
        nx == landmarks.nose.x
        ny == landmarks.nose.y
        vLR_x == rx - lx
        vLR_y == ry - ly
        vLN_x == nx - lx
        vLN_y == ny - ly
        dot == (vLN_x * vLR_x) + (vLN_y * vLR_y)
        len_sq == (vLR_x * vLR_x) + (vLR_y * vLR_y)
        t == Projection(dot, len_sq)
        px == RatAdd(RatInt(lx), RatMul(t, RatInt(vLR_x)))
        py == RatAdd(RatInt(ly), RatMul(t, RatInt(vLR_y)))
        Sq(a) == RatMul(a, a)
    IN  [leftSq |-> RatAdd(Sq(RatSub(px, RatInt(lx))), Sq(RatSub(py, RatInt(ly)))),
         rightSq |-> RatAdd(Sq(RatSub(px, RatInt(rx))), Sq(RatSub(py, RatInt(ry)))),
         totalSq |-> RatInt(len_sq)]

InitGeo ==
    /\ InitSession
    /\ NoAggregate
    /\ NoScore
    /\ geoArgs \in Landmarks
    /\ geoResult = <<>>
    /\ InitService

Split ==
    /\ geoResult = <<>>
    /\ geoResult' = <<MonocularSplit(geoArgs)>>
    /\ UNCHANGED <<geoArgs, sessionVars, aggVars, accVars, serviceVars>>

NextGeo == Split

SpecGeo == InitGeo /\ [][NextGeo]_vars

(***************************************************************************)
(* FaceDetectionService on its own: any calls, in any order.               *)
(***************************************************************************)
NextService ==
    \/ \E useGpu \in BOOLEAN : initialize(useGpu)
    \/ \E i \in 1..Len(initsInFlight) : LandmarkerCreated(i)
    \/ \E i \in 1..Len(initsInFlight) : AttemptFailed(i)
    \/ \E video \in Videos, startTimeMs \in 0..MaxTime, outcome \in DetectorOutcomes :
          ServiceDetect(video, startTimeMs, outcome)
    \/ close

SpecService == Init /\ [][NextService]_vars

(***************************************************************************)
(* Properties.                                                             *)
(***************************************************************************)
EnteredComplete == captureStatus # "complete" /\ captureStatus' = "complete"

\* C1: onCapture is called exactly once per entry into Complete: a step calls
\* it at most once, calls it exactly when the session enters Complete (so
\* never while it stays Complete), and hands it averageMetrics of the buffer
\* together with the whole buffer.
C1_CaptureFiresOncePerCompletion ==
    [][ /\ Len(onCaptureCalls') <= 1
        /\ (Len(onCaptureCalls') = 1) <=> EnteredComplete
        /\ Len(onCaptureCalls') = 1 =>
              /\ onCaptureCalls'[1].samples = samples'
              /\ onCaptureCalls'[1].finalMetrics = averageMetrics(samples')
              /\ Len(samples') = Len(samples) + 1 ]_vars

\* The stability window of the specification (capacity 30) and its strict
\* completion threshold (0.6 mm, in tenths of a millimetre); the window is
\* read off the ipd of the most recent samples.
STABILITY_WINDOW == 30
STRICT_STD_DEV == 6

RecentIpd(buffer) ==
    LET n == Len(buffer)
        from == Max(1, n - STABILITY_WINDOW + 1)
    IN  [k \in 1..(n - from + 1) |-> buffer[from + k - 1].ipd]

\* stdDev <= limit, compared on the squares.
StdDevWithin(values, limit) ==
    ~RatGt(avgSquareDiff(values), RatInt(limit * limit))

\* C2: the session enters Complete only on a tick with at least
\* REQUIRED_SAMPLES samples and a window stdDev within the strict threshold.
C2_CompletesOnlyWhenStable ==
    [][ EnteredComplete =>
            /\ Len(samples') >= REQUIRED_SAMPLES
            /\ StdDevWithin(RecentIpd(samples'), STRICT_STD_DEV) ]_vars

\* The resets asked for from outside: the RETAKE SCAN button, and closing
\* the result modal, after which React mounts CameraView anew.
ExternalReset == resetCapture \/ (Render /\ Remounts)

\* C3: Complete is left by an external reset alone.
C3_CompleteUntilReset ==
    [][ captureStatus = "complete" =>
            (captureStatus' = "complete" \/ ExternalReset) ]_vars

\* C4: right after a tick without a face the session is Idle, the buffer
\* empty and the progress 0.
C4_NoFaceResetsToIdle ==
    frameKind = "noFace" =>
        captureStatus = "idle" /\ samples = <<>> /\ samplingProgress = 0

\* A tick without a face right after the completing tick: the result modal
\* is open and React has rendered the finished capture.
C4_Witness ==
    /\ frameKind = "noFace"
    /\ rendered.captureStatus = "complete"
    /\ isModalOpen
    /\ guidanceState.hold

\* C5: in Sampling, a face tick whose distance, centre or yaw axis is not ok
\* resets the session to Idle with an empty buffer and progress 0.
C5_MisalignmentResets ==
    [][ ( /\ captureStatus = "sampling"
          /\ frameKind' = "face"
          /\ \/ guidanceState'.distance # "ok"
             \/ guidanceState'.center # "ok"
             \/ guidanceState'.yaw # "ok" )
        => captureStatus' = "idle" /\ samples' = <<>> /\ samplingProgress' = 0 ]_vars

\* C6: in Sampling, a face tick whose only axis not ok is the eyes leaves the
\* state, the buffer and the progress as they were.
C6_EyeClosureKeepsProgress ==
    [][ ( /\ captureStatus = "sampling"
          /\ frameKind' = "face"
          /\ guidanceState'.eyes # "ok"
          /\ isPerfect([guidanceState' EXCEPT !.eyes = "ok"]) )
        => UNCHANGED <<captureStatus, samples, samplingProgress>> ]_vars

\* Sampling, right after a tick on which only the eyes were not ok.
C6_Witness ==
    /\ captureStatus = "sampling"
    /\ frameKind = "face"
    /\ guidanceState.eyes = "open"
    /\ isPerfect([guidanceState EXCEPT !.eyes = "ok"])
    /\ Len(samples) > MaxVaried

\* The MAX_SAMPLES of the specification, a named constant above the number
\* of samples a capture requires, for which the specification gives no
\* value and the code has no counterpart: the least such number.
MAX_SAMPLES == REQUIRED_SAMPLES + 1

\* C7: the buffer never holds more than MAX_SAMPLES samples.
C7_BufferBounded == Len(samples) <= MAX_SAMPLES

\* C8: after a tick with a detected face, hold is true exactly when every
\* axis is ok, whatever the capture state.
C8_HoldIffAllAxesOk ==
    frameKind = "face" => (guidanceState.hold <=> isPerfect(guidanceState))

ResultOf(r) == r[1]

\* C9: for every non-empty input the result has leftPd + rightPd = ipd.
C9_SplitSumsToIpd ==
    (aggResult # <<>> /\ Len(aggSamples) > 0) =>
        RatAdd(ResultOf(aggResult).leftPd, ResultOf(aggResult).rightPd)
            = ResultOf(aggResult).ipd

\* A result for samples whose monocular distances are all zero.
C9_Witness ==
    /\ aggResult # <<>>
    /\ Len(aggSamples) > 0
    /\ \A k \in 1..Len(aggSamples) :
          aggSamples[k].leftPd + aggSamples[k].rightPd = 0

\* The samples within 1.0 mm of the median ipd of the input.
WithinOneMm(input) ==
    SelectSeq(input, LAMBDA s : WithinTolerance(s, getMedian(Field(input, "ipd"))))

\* C11: the result is the one computed from the samples within 1.0 mm of the
\* median ipd when these are 40% of the input or more, and from the whole
\* input when they are fewer.
C11_FilteredFromFortyPercent ==
    (aggResult # <<>> /\ Len(aggSamples) > 0) =>
        ResultOf(aggResult) =
            AverageOfSet(IF Len(WithinOneMm(aggSamples)) * 10 < Len(aggSamples) * 4
                            THEN aggSamples ELSE WithinOneMm(aggSamples),
                         getMedian(Field(aggSamples, "ipd")))

\* C11, amended: the result is the one computed from the samples within
\* 1.0 mm of the median ipd when these are more than 40% of the input, and
\* from the whole input when they are 40% of it or fewer.
C11_FilteredAboveFortyPercent ==
    (aggResult # <<>> /\ Len(aggSamples) > 0) =>
        ResultOf(aggResult) =
            AverageOfSet(IF Len(WithinOneMm(aggSamples)) * 10 > Len(aggSamples) * 4
                            THEN WithinOneMm(aggSamples) ELSE aggSamples,
                         getMedian(Field(aggSamples, "ipd")))

\* averageMetrics has been called with a list of which exactly 40% is within
\* 1.0 mm of the median ipd.
C11_Witness ==
    /\ aggResult # <<>>
    /\ Len(aggSamples) > 0
    /\ Len(WithinOneMm(aggSamples)) * 10 = Len(aggSamples) * 4

\* The weight 1/(1 + poseError * 10) of a sample, poseError being
\* |yaw| + |pitch| + |roll|/100, which is a thousandth of the sum below.
PoseWeight(s) == Rat(1000, 1000 + 10 * (Abs(s.yaw) + Abs(s.pitch) + Abs(s.roll)))

PoseWeightedIpd(set) ==
    RatDiv(RatSum([k \in 1..Len(set) |-> RatMul(RatInt(set[k].ipd), PoseWeight(set[k]))]),
           RatSum([k \in 1..Len(set) |-> PoseWeight(set[k])]))

\* The filter excludes samples: some are not within 1.0 mm of the median and
\* those within are more than 40% of the input.
FilterExcludes(input) ==
    /\ Len(WithinOneMm(input)) < Len(input)
    /\ Len(WithinOneMm(input)) * 10 > Len(input) * 4

\* C12: when the filter excludes samples the final ipd is the pose-weighted
\* mean of the retained samples, and so lies between the smallest and the
\* largest retained ipd.
C12_IpdFromRetainedOnly ==
    (aggResult # <<>> /\ FilterExcludes(aggSamples)) =>
        LET kept == WithinOneMm(aggSamples)
            ipd == ResultOf(aggResult).ipd
        IN  /\ ipd = PoseWeightedIpd(kept)
            /\ \E k \in 1..Len(kept) : ~RatLt(ipd, RatInt(kept[k].ipd))
            /\ \E k \in 1..Len(kept) : ~RatGt(ipd, RatInt(kept[k].ipd))

\* The filter has excluded samples and the retained ones differ in ipd and
\* in weight.
C12_Witness ==
    /\ aggResult # <<>>
    /\ FilterExcludes(aggSamples)
    /\ \E j, k \in 1..Len(WithinOneMm(aggSamples)) :
          /\ WithinOneMm(aggSamples)[j].ipd # WithinOneMm(aggSamples)[k].ipd
          /\ PoseWeight(WithinOneMm(aggSamples)[j]) # PoseWeight(WithinOneMm(aggSamples)[k])

\* C10: for the empty input the call fails and yields no Metrics.
C10_EmptyInputFails ==
    (aggResult # <<>> /\ Len(aggSamples) = 0) =>
        /\ "error" \in DOMAIN ResultOf(aggResult)
        /\ "ipd" \notin DOMAIN ResultOf(aggResult)

\* averageMetrics has been called with the empty list.
C10_Witness == aggResult # <<>> /\ Len(aggSamples) = 0

\* The arguments of the call of calculateAccuracy carry no penalty but that
\* of the distance.
NeutralButDistance ==
    /\ accArgs.lighting >= 60
    /\ accArgs.roll = 0 /\ accArgs.yaw = 0 /\ accArgs.pitch = 0
    /\ accArgs.stability = 100

\* C13: for every combination of arguments, extreme ones included,
\* calculateAccuracy returns an integer from 0 to 100.
C13_AccuracyInRange ==
    accResult # <<>> => ResultOf(accResult) \in 0..100

\* calculateAccuracy has been called with an extreme value in every
\* argument, the penalties far beyond 100.
C13_Witness ==
    /\ accResult # <<>>
    /\ \A f \in DOMAIN accArgs : Abs(accArgs[f]) = Extreme
    /\ accArgs.lighting < 0 /\ accArgs.stability < 0

\* C14: with no penalty but that of the distance, the accuracy is 100 less
\* the distance penalty, rounded to a whole number: 100 at the ideal distance
\* of 30 cm, and 100 - (MIN_DISTANCE_CM - d) * 5 for a distance d from 0 to
\* MIN_DISTANCE_CM, which is 50 at 10 cm.
C14_NeutralIsDistancePenaltyOnly ==
    (accResult # <<>> /\ NeutralButDistance) =>
        /\ accArgs.distance = Cm(IDEAL_DISTANCE_CM) => ResultOf(accResult) = 100
        /\ accArgs.distance = Cm(10) => ResultOf(accResult) = 50
        /\ (accArgs.distance >= 0 /\ accArgs.distance < Cm(MIN_DISTANCE_CM)) =>
              \* twice the accuracy against twice (100 - (20 - d) * 5), d in
              \* tenths of a centimetre: equal, or half a point rounded up
              LET twice == 200 - (Cm(MIN_DISTANCE_CM) - accArgs.distance)
              IN  2 * ResultOf(accResult) \in {twice, twice + 1}

\* calculateAccuracy has been called at 10 cm with no other penalty.
C14_Witness ==
    /\ accResult # <<>>
    /\ NeutralButDistance
    /\ accArgs.distance = Cm(10)
    /\ accArgs.lighting = 80

\* C15: a tick whose face lacks a required landmark is handled as a tick
\* without a face: it makes no onCapture call, the session is Idle with an
\* empty buffer and progress 0 after it, and the next frame is requested.
C15_IncompleteFrameIsNoFace ==
    [][frameKind' = "incomplete" =>
          /\ onCaptureCalls' = <<>>
          /\ captureStatus' = "idle"
          /\ samples' = <<>>
          /\ samplingProgress' = 0
          /\ loopRunning']_vars

\* What the latest call of the service's detect was given and what it did.
CallOf(c) == c[1]
ReturnOf(c) == c[2]

\* C16: the service's detect never raises; without a landmarker, for an empty
\* or unready video, and when the detector throws, it returns null.
C16_DetectNeverRaises ==
    detectCall # <<>> =>
        /\ ReturnOf(detectCall) # "raised"
        /\ ReturnOf(detectCall) \in {"null", "face", "noFace"}
        /\ CallOf(detectCall).faceLandmarker = "null" => ReturnOf(detectCall) = "null"
        /\ ~VideoReady(CallOf(detectCall).video) => ReturnOf(detectCall) = "null"
        /\ CallOf(detectCall).outcome = "throws" => ReturnOf(detectCall) = "null"

\* The detector has been run on a ready video with a new timestamp and threw.
C16_Witness ==
    /\ detectCall # <<>>
    /\ CallOf(detectCall).faceLandmarker = "landmarker"
    /\ VideoReady(CallOf(detectCall).video)
    /\ CallOf(detectCall).startTimeMs > CallOf(detectCall).lastVideoTime
    /\ CallOf(detectCall).outcome = "throws"
    /\ ReturnOf(detectCall) = "null"

\* C17: a frame whose timestamp is not newer than the last one is no tick:
\* captureStatus, the buffer and the progress are after it what they were
\* before it.
C17_StaleFrameChangesNothing ==
    [][frameKind' = "stale" =>
          UNCHANGED <<captureStatus, samples, samplingProgress>>]_vars

\* C18: the manual reset leaves the session Idle with an empty buffer and
\* progress 0, and changes nothing else: the guidance, the face-detected
\* flag, the detection service and the result modal of App stay as they are.
C18_ResetOnlyResetsCapture ==
    [][resetCapture =>
          /\ captureStatus' = "idle"
          /\ samples' = <<>>
          /\ samplingProgress' = 0
          /\ UNCHANGED <<guidanceState, faceDetected, lastTimeRef, faceLandmarker,
                         initPromise, lastVideoTime, detectorTimes, appVars>>]_vars

\* RETAKE SCAN has been pressed on the finished capture: the session is Idle
\* while the render still shows it complete, with the guidance of the last
\* sample and the face still detected.
C18_Witness ==
    /\ captureStatus = "idle"
    /\ rendered.captureStatus = "complete"
    /\ frameKind = "none"
    /\ samples = <<>>
    /\ samplingProgress = 0
    /\ guidanceState.hold
    /\ faceDetected

\* C19: on a tick with a face and hold true, an Idle session becomes
\* Sampling, the session is Complete after the tick exactly when the tick
\* appended the REQUIRED_SAMPLES-th sample, and onCapture is called, once,
\* on exactly that tick.
C19_CompletesAtRequiredSample ==
    [][(frameKind' = "face" /\ guidanceState'.hold) =>
          /\ samples' = Append(samples, samples'[Len(samples')])
          /\ captureStatus = "idle" => captureStatus' = "sampling"
          /\ captureStatus' = "complete" <=> Len(samples') = REQUIRED_SAMPLES
          /\ Len(onCaptureCalls') =
                IF Len(samples') = REQUIRED_SAMPLES THEN 1 ELSE 0]_vars

\* C20: the captureStatus and faceDetected that a tick reads are those the
\* preceding tick or reset left, never older ones.
C20_TickReadsCurrentState ==
    [][frameKind' # "none" =>
          /\ requestRef.captureStatus = captureStatus
          /\ requestRef.faceDetected = faceDetected]_vars

\* The GuidanceState that a frame yields when it is evaluated on its own.
GuidanceOf(frame) ==
    LET g == newGuidance(calculateMetrics(frame, DEFAULT_LIGHTING),
                         frame.leftOpen, frame.rightOpen)
    IN  [g EXCEPT !.hold = isPerfect(g)]

\* C21: the GuidanceState a tick publishes, hold included, is determined by
\* the frame alone: the same frame gives the same GuidanceState in every
\* capture state and after any earlier ticks.
C21_GuidanceDependsOnFrameOnly ==
    [][\A frame \in MisalignedFrames \cup AlignedFrames :
          (\E startTime \in TickTimes : DetectFace(frame, startTime)) =>
              guidanceState' = GuidanceOf(frame)]_vars

\* The two iris centres of the split are distinct.
IrisesDistinct == geoArgs.leftIris # geoArgs.rightIris

\* sqrt(a) + sqrt(b) = sqrt(c) for rationals a, b, c >= 0, without roots:
\* c >= a + b and 4ab = (c - a - b)^2.
RootsAddUp(a, b, c) ==
    LET rest == RatSub(c, RatAdd(a, b))
    IN  /\ rest.n >= 0
        /\ RatMul(RatInt(4), RatMul(a, b)) = RatMul(rest, rest)

\* C22: for distinct iris centres the pixel lengths of the monocular split
\* sum to the pixel distance between the iris centres.
C22_SplitSumsToPixelDistance ==
    (geoResult # <<>> /\ IrisesDistinct) =>
        RootsAddUp(ResultOf(geoResult).leftSq, ResultOf(geoResult).rightSq,
                   ResultOf(geoResult).totalSq)

\* C23: the timestamps handed to the detector are strictly increasing over
\* the whole life of the service, and a call whose timestamp is not greater
\* than the last one handed over returns null and hands nothing over.
C23_DetectorTimesIncrease ==
    /\ [](\A j, k \in 1..Len(detectorTimes) :
             j < k => detectorTimes[j] < detectorTimes[k])
    /\ [][(detectCall' # <<>> /\ detectorTimes # <<>> /\
           CallOf(detectCall').startTimeMs <= detectorTimes[Len(detectorTimes)]) =>
             /\ ReturnOf(detectCall') = "null"
             /\ detectorTimes' = detectorTimes]_vars

\* Two frames have gone to the detector, and the latest call, on a ready
\* video with a landmarker held, carried the timestamp of the later frame
\* again and was refused.
C23_Witness ==
    /\ Len(detectorTimes) >= 2
    /\ detectCall # <<>>
    /\ CallOf(detectCall).faceLandmarker = "landmarker"
    /\ VideoReady(CallOf(detectCall).video)
    /\ CallOf(detectCall).startTimeMs = detectorTimes[Len(detectorTimes)]
    /\ ReturnOf(detectCall) = "null"
    /\ CallOf(detectCall).outcome = "face"

\* C24: the sampling progress is min(100, sampleCount / REQUIRED_SAMPLES * 100)
\* in every reachable state, hence within 0..100.
C24_ProgressFollowsBuffer ==
    /\ samplingProgress = Min(100, (Len(samples) * 100) \div REQUIRED_SAMPLES)
    /\ samplingProgress \in 0..100

\* C26: on a tick with a face, the lighting of the sample the tick appends
\* is the score analyzeLighting gives for the video.
C26_LightingIsAnalysed ==
    [][\A frame \in MisalignedFrames \cup AlignedFrames :
          ((\E startTime \in TickTimes : DetectFace(frame, startTime)) /\
           Len(samples') = Len(samples) + 1) =>
              samples'[Len(samples')].lighting = frame.analysis]_vars

\* C27: the buffer is empty when the session is Idle, holds from 1 to
\* REQUIRED_SAMPLES - 1 samples when it is Sampling, and exactly
\* REQUIRED_SAMPLES samples when it is Complete.
C27_BufferMatchesState ==
    /\ captureStatus = "idle" => Len(samples) = 0
    /\ captureStatus = "sampling" => Len(samples) \in 1..(REQUIRED_SAMPLES - 1)
    /\ captureStatus = "complete" => Len(samples) = REQUIRED_SAMPLES

\* The attempts an initialization called with useGpu may have behind it while
\* it runs, and the attempts behind it when it rejects.
FailedWhileRunning(useGpu, delegate) ==
    IF useGpu /\ delegate = "CPU" THEN <<"GPU">> ELSE <<>>
FailedWhenRejected(useGpu) == IF useGpu THEN <<"GPU", "CPU">> ELSE <<"CPU">>

\* C25: an initialization called with useGpu = true starts with the GPU
\* delegate and, if that attempt fails, makes exactly one more attempt, with
\* the CPU delegate; it rejects only after a failed CPU attempt.  One called
\* with useGpu = false makes its only attempt with the CPU delegate and
\* rejects when that fails.
C25_RetryWithCpuFallback ==
    /\ \A k \in 1..Len(initsInFlight) :
          /\ ~initsInFlight[k].useGpu => initsInFlight[k].delegate = "CPU"
          /\ initsInFlight[k].failed =
                FailedWhileRunning(initsInFlight[k].useGpu, initsInFlight[k].delegate)
    /\ initSettled # <<>> =>
          LET init == initSettled[1].init
          IN  IF initSettled[1].outcome = "rejected"
                 THEN init.failed = FailedWhenRejected(init.useGpu)
                 ELSE init.failed = FailedWhileRunning(init.useGpu, init.delegate)

\* An initialize(true) has rejected after its GPU and its CPU attempt failed.
C25_Witness ==
    /\ initSettled # <<>>
    /\ initSettled[1].outcome = "rejected"
    /\ initSettled[1].init.useGpu
    /\ initSettled[1].init.failed = <<"GPU", "CPU">>
    /\ initPromise = "null"

\* C28: at most one creation of a landmarker is in flight, and a creation
\* never completes while a landmarker is held.
C28_OneCreationAtATime ==
    /\ [](Len(initsInFlight) <= 1)
    /\ [][(initSettled' # <<>> /\ initSettled'[1].outcome = "resolved") =>
             faceLandmarker = "null"]_vars

\* C29: once close has been called, a landmarker is held again only when an
\* initialize called after the close has completed: a creation that was in
\* flight at the close never installs one.
C29_ClosedUntilInitializedAgain ==
    [][(initSettled' # <<>> /\ initSettled'[1].outcome = "resolved" /\
        initSettled'[1].init.closed) => faceLandmarker' = "null"]_vars

\* Distance d lies on the same side of the ideal distance as e, farther out.
FartherFromIdeal(d, e) ==
    \/ Cm(IDEAL_DISTANCE_CM) <= e /\ e < d
    \/ d < e /\ e <= Cm(IDEAL_DISTANCE_CM)

\* C30: with the other arguments fixed, a distance farther from the ideal
\* distance on the same side never scores higher.
C30_AccuracyFallsWithDistance ==
    accResult # <<>> =>
        \A d \in AccDistances :
            FartherFromIdeal(d, accArgs.distance) =>
                calculateAccuracy(d, accArgs.lighting, accArgs.roll, accArgs.yaw,
                                  accArgs.pitch, accArgs.stability)
                    <= ResultOf(accResult)

=============================================================================
